---- MODULE Spec2Model ----
(***************************************************************************)
(* cssSelectorBuilder of src/src/05-objects-tasks.js: one shared object    *)
(* whose methods mutate its fields and return the object itself.           *)
(* JavaScript strings are TLA+ strings ("" is the only falsy one), arrays  *)
(* are sequences.                                                          *)
(***************************************************************************)
EXTENDS Integers, Sequences, FiniteSets, TLC

VARIABLES
  selectObj,        \* this.selectObj: the in-progress selector
  combo,            \* this.combo: flushed segments
  comboSeparators,  \* this.comboSeparators: recorded combinators
  firstMode,        \* this.firstMode
  firstId,          \* this.firstId
  calls,            \* history: every call made on the builder, in order
  thrown,           \* history: per call, the message of the error it raised
  returned,         \* history: <<s>> when the last call returned string s
  expr,             \* the caller: <<>> makes any call and catches errors,
                    \* otherwise the expression it evaluates (postfix tokens)
  todo,             \* the calls of expr the caller has still to make
  sessions          \* <<>>, or two callers that each evaluate an expression
                    \* of their own on the shared builder, their calls
                    \* interleaved

vars == <<selectObj, combo, comboSeparators, firstMode, firstId,
          calls, thrown, returned, expr, todo, sessions>>

(***************************************************************************)
(* Bounds and inputs                                                       *)
(***************************************************************************)
MaxCalls == 4     \* calls an unscripted caller makes
MaxRepeat == 2    \* repetitions of class / attr / pseudoClass in a chain
MaxLeaves == 4    \* operands of a combine expression of any nesting shape

Tags == {"a", "td"}
Ids == {"x"}
Classes == {"c", "d"}
Attrs == {"h"}
PseudoClasses == {"f"}
PseudoElements == {"e"}
Combinators == {" ", "+", "~", ">"}
\* what a caller may pass as args[1]: the combinators and some other token
CombinatorArgs == Combinators \cup {"!"}

NoError == "no error"

(***************************************************************************)
(* The object                                                              *)
(***************************************************************************)
emptySelectObj ==
  [tag |-> "", id |-> "", class |-> "", attr |-> "", pseudoClass |-> "",
   pseudoElement |-> "", seq |-> "", prevElem |-> ""]

errors ==
  [order |-> "Selector parts should be arranged in the following order: element, id, class, attribute, pseudo-class, pseudo-element",
   moreThanOne |-> "Element, id and pseudo-element should not occur more then one time inside the selector"]

\* the builder as constructed
initialBuilder ==
  [selectObj |-> emptySelectObj, combo |-> <<>>, comboSeparators |-> <<>>,
   firstMode |-> TRUE, firstId |-> FALSE]

\* the builder the variables hold
This ==
  [selectObj |-> selectObj, combo |-> combo,
   comboSeparators |-> comboSeparators,
   firstMode |-> firstMode, firstId |-> firstId]

\* `this.prevElem` read in id(): the builder has no such field (prevElem is
\* a field of selectObj), so the read yields undefined, which is falsy
thisPrevElem == ""

Truthy(s) == s # ""

Ok(this) == [this |-> this, thrown |-> NoError]

(***************************************************************************)
(* Helpers of the builder                                                  *)
(***************************************************************************)
cleanSelector(this) == [this EXCEPT !.selectObj = emptySelectObj]

\* returns seq (result) and leaves it in prevElem
genSelector(this) ==
  [this |-> [cleanSelector(this) EXCEPT
               !.selectObj.prevElem = this.selectObj.seq],
   result |-> this.selectObj.seq]

\* writeCombo that always takes its second branch
writeComboPushesSeq(this) ==
  [this EXCEPT !.combo = Append(@, this.selectObj.seq)]

writeCombo(this) ==
  IF Truthy(this.selectObj.prevElem)
  THEN [this EXCEPT !.combo = Append(@, this.selectObj.prevElem),
                    !.selectObj.prevElem = ""]
  ELSE [this EXCEPT !.combo = Append(@, this.selectObj.seq)]

\* genError that also empties the composite lists
genErrorClearsCombo(this, message) ==
  [this |-> [cleanSelector(this) EXCEPT !.selectObj.prevElem = "",
                                        !.combo = <<>>,
                                        !.comboSeparators = <<>>,
                                        !.firstMode = TRUE,
                                        !.firstId = FALSE],
   thrown |-> message]

genError(this, message) ==
  [this |-> [cleanSelector(this) EXCEPT !.selectObj.prevElem = "",
                                        !.firstMode = TRUE,
                                        !.firstId = FALSE],
   thrown |-> message]

(***************************************************************************)
(* The methods, as functions of the builder                                *)
(***************************************************************************)
\* element without the test for a second element
elementSkipsDuplicateTest(this, tag) ==
  LET t1 == IF Truthy(this.selectObj.seq) /\ ~this.firstMode
            THEN [writeCombo(genSelector(this).this) EXCEPT
                    !.firstMode = TRUE]
            ELSE this
  IN IF t1.firstId THEN genError(t1, errors.order)
     ELSE Ok([t1 EXCEPT !.selectObj.tag = tag, !.selectObj.seq = tag])

element(this, tag) ==
  LET t1 == IF Truthy(this.selectObj.seq) /\ ~this.firstMode
            THEN [writeCombo(genSelector(this).this) EXCEPT
                    !.firstMode = TRUE]
            ELSE this
  IN IF t1.firstId THEN genError(t1, errors.order)
     ELSE IF Truthy(t1.selectObj.tag) /\ t1.firstMode
          THEN genError(t1, errors.moreThanOne)
     ELSE Ok([t1 EXCEPT !.selectObj.tag = tag, !.selectObj.seq = tag])

id(this, _id) ==
  LET t1 == IF Truthy(thisPrevElem) THEN writeCombo(this) ELSE this
  IN IF Truthy(t1.selectObj.id) THEN genError(t1, errors.moreThanOne)
     ELSE IF Truthy(t1.selectObj.class) \/ Truthy(t1.selectObj.pseudoElement)
          THEN genError(t1, errors.order)
     ELSE IF Truthy(t1.selectObj.tag)
             /\ Len(t1.selectObj.seq) > Len(t1.selectObj.tag)
          THEN genError(t1, errors.order)
     ELSE Ok([t1 EXCEPT !.selectObj.id = "#" \o _id,
                        !.firstId = IF t1.selectObj.seq = "" THEN TRUE ELSE @,
                        !.selectObj.seq = @ \o "#" \o _id,
                        !.firstMode = FALSE])

\* class that raises through genError like the other methods
classViaGenError(this, _class) ==
  IF Truthy(this.selectObj.attr) THEN genError(this, errors.order)
  ELSE Ok([this EXCEPT !.selectObj.class = "." \o _class,
                       !.selectObj.seq = @ \o "." \o _class,
                       !.firstMode = FALSE,
                       !.firstId = FALSE])

\* class with `=` where the code has `+=`
classOverwritesSeq(this, _class) ==
  IF Truthy(this.selectObj.attr)
  THEN [this |-> this, thrown |-> errors.order]
  ELSE Ok([this EXCEPT !.selectObj.class = "." \o _class,
                       !.selectObj.seq = "." \o _class,
                       !.firstMode = FALSE,
                       !.firstId = FALSE])

class(this, _class) ==
  IF Truthy(this.selectObj.attr)
  THEN [this |-> this, thrown |-> errors.order]
  ELSE Ok([this EXCEPT !.selectObj.class = "." \o _class,
                       !.selectObj.seq = @ \o "." \o _class,
                       !.firstMode = FALSE,
                       !.firstId = FALSE])

attr(this, _attr) ==
  IF Truthy(this.selectObj.pseudoClass) THEN genError(this, errors.order)
  ELSE Ok([this EXCEPT !.selectObj.attr = "[" \o _attr \o "]",
                       !.selectObj.seq = @ \o "[" \o _attr \o "]",
                       !.firstMode = FALSE,
                       !.firstId = FALSE])

pseudoClass(this, _pseudoClass) ==
  IF Truthy(this.selectObj.pseudoElement) THEN genError(this, errors.order)
  ELSE Ok([this EXCEPT !.selectObj.pseudoClass = ":" \o _pseudoClass,
                       !.selectObj.seq = @ \o ":" \o _pseudoClass,
                       !.firstMode = FALSE,
                       !.firstId = FALSE])

pseudoElement(this, _pseudoElement) ==
  IF Truthy(this.selectObj.pseudoElement)
  THEN genError(this, errors.moreThanOne)
  ELSE Ok([this EXCEPT !.selectObj.pseudoElement = "::" \o _pseudoElement,
                       !.selectObj.seq = @ \o "::" \o _pseudoElement,
                       !.firstMode = FALSE,
                       !.firstId = FALSE])

\* combine with unshift where the code has push
combineUnshifts(this, combinator) ==
  LET t1 == IF Truthy(this.selectObj.seq)
            THEN writeCombo(genSelector(this).this)
            ELSE this
  IN Ok([t1 EXCEPT !.comboSeparators = <<combinator>> \o @])

\* combine that rejects a token that is no combinator
combineValidates(this, combinator) ==
  LET t1 == IF Truthy(this.selectObj.seq)
            THEN writeCombo(genSelector(this).this)
            ELSE this
  IN IF combinator \in Combinators
     THEN Ok([t1 EXCEPT !.comboSeparators = Append(@, combinator)])
     ELSE [this |-> t1, thrown |-> "invalid combinator"]

\* combine(...args): the operands are already evaluated; only args[1] is used
combine(this, combinator) ==
  LET t1 == IF Truthy(this.selectObj.seq)
            THEN writeCombo(genSelector(this).this)
            ELSE this
  IN Ok([t1 EXCEPT !.comboSeparators = Append(@, combinator)])

\* reverse left out
NoReverse(s) == s

\* Array.prototype.reverse
Reverse(s) == [i \in 1..Len(s) |-> s[Len(s) + 1 - i]]

\* combo.flatMap(...): item index (0-based in the code) i - 1; a separator
\* index past the end of the array reads undefined, which join renders ''
flatMapCombo(items, seps) ==
  LET RECURSIVE build(_)
      build(i) ==
        IF i > Len(items) THEN <<>>
        ELSE IF i < Len(items)
             THEN <<items[i], IF i <= Len(seps) THEN seps[i] ELSE "">>
                  \o build(i + 1)
             ELSE <<items[i]>>
  IN build(1)

\* Array.prototype.join
RECURSIVE join(_, _)
join(arr, glue) ==
  IF arr = <<>> THEN ""
  ELSE IF Len(arr) = 1 THEN arr[1]
  ELSE arr[1] \o glue \o join(Tail(arr), glue)

\* stringify whose first branch forgets to empty comboSeparators
stringifyKeepsSeparators(this) ==
  IF Len(this.combo) > 0
  THEN LET seps == Reverse(this.comboSeparators)
       IN [this |-> [this EXCEPT !.combo = <<>>,
                                 !.firstMode = TRUE,
                                 !.firstId = FALSE],
           result |-> join(flatMapCombo(this.combo, seps), " ")]
  ELSE LET g == genSelector(this)
       IN [this |-> [g.this EXCEPT !.selectObj.prevElem = "",
                                   !.firstMode = TRUE,
                                   !.firstId = FALSE],
           result |-> g.result]

stringify(this) ==
  IF Len(this.combo) > 0
  THEN LET seps == Reverse(this.comboSeparators)
       IN [this |-> [this EXCEPT !.comboSeparators = <<>>,
                                 !.combo = <<>>,
                                 !.firstMode = TRUE,
                                 !.firstId = FALSE],
           result |-> join(flatMapCombo(this.combo, seps), " ")]
  ELSE LET g == genSelector(this)
       IN [this |-> [g.this EXCEPT !.selectObj.prevElem = "",
                                   !.firstMode = TRUE,
                                   !.firstId = FALSE],
           result |-> g.result]

(***************************************************************************)
(* The caller                                                              *)
(***************************************************************************)
Call(op, arg) == [op |-> op, arg |-> arg]

\* the builder after call c (an error leaves the fields as the method set
\* them before it threw)
After(this, c) ==
  CASE c.op = "element" -> element(this, c.arg).this
    [] c.op = "id" -> id(this, c.arg).this
    [] c.op = "class" -> class(this, c.arg).this
    [] c.op = "attr" -> attr(this, c.arg).this
    [] c.op = "pseudoClass" -> pseudoClass(this, c.arg).this
    [] c.op = "pseudoElement" -> pseudoElement(this, c.arg).this
    [] c.op = "combine" -> combine(this, c.arg).this
    [] c.op = "stringify" -> stringify(this).this

\* what the stringify() that ends script returns when the script is run on
\* builder this
RECURSIVE Yields(_, _)
Yields(this, script) ==
  IF Len(script) = 1 THEN stringify(this).result
  ELSE Yields(After(this, Head(script)), Tail(script))

RECURSIVE Flatten(_)
Flatten(tokens) ==
  IF tokens = <<>> THEN <<>> ELSE Head(tokens).calls \o Flatten(Tail(tokens))

\* the calls evaluating expression e makes, in JavaScript's evaluation
\* order: the operands of combine left to right, then combine itself
Script(e) == Flatten(e)

Leaf(chain) == [kind |-> "leaf", calls |-> chain]

Comb(c) == [kind |-> "combine", calls |-> <<Call("combine", c)>>]

Str == [kind |-> "stringify", calls |-> <<Call("stringify", "")>>]

\* up to n calls of one method
Runs(op, values, n) ==
  UNION {[1..k -> {Call(op, v) : v \in values}] : k \in 0..n}

\* element? id? class* attr* pseudoClass* pseudoElement?
ValidChains ==
  {e \o i \o c \o a \o p \o q :
     e \in Runs("element", Tags, 1),
     i \in Runs("id", Ids, 1),
     c \in Runs("class", Classes, MaxRepeat),
     a \in Runs("attr", Attrs, MaxRepeat),
     p \in Runs("pseudoClass", PseudoClasses, MaxRepeat),
     q \in Runs("pseudoElement", PseudoElements, 1)}

\* operands of a single combine
ShortChains == {ch \in ValidChains : Len(ch) \in {1, 2}}

\* operands of nested combines: element(...) and at least one more fragment
NestLeaves ==
  {<<Call("element", "a"), Call("id", "x"), Call("class", "c"),
     Call("class", "d")>>,
   <<Call("element", "td"), Call("id", "x")>>,
   <<Call("element", "a"), Call("pseudoClass", "f")>>,
   <<Call("element", "td"), Call("attr", "h"), Call("pseudoElement", "e")>>}

\* builder.<chain>.stringify()
ChainExprs == {<<Leaf(ch), Str>> : ch \in ValidChains}

\* builder.combine(a, c, b).stringify()
PairExprs ==
  {<<Leaf(a), Leaf(b), Comb(c), Str>> :
     a \in ShortChains, b \in ShortChains, c \in Combinators}

\* builder.combine(builder.combine(a, c1, b), c2, c).stringify()
LeftExprs ==
  {<<Leaf(a), Leaf(b), Comb(c1), Leaf(c), Comb(c2), Str>> :
     a \in NestLeaves, b \in NestLeaves, c \in NestLeaves,
     c1 \in Combinators, c2 \in Combinators}

\* builder.combine(a, c1, builder.combine(b, c2, builder.combine(c, c3, d)))
\*   .stringify()
RightExprs ==
  {<<Leaf(a), Leaf(b), Leaf(c), Leaf(d), Comb(c3), Comb(c2), Comb(c1), Str>> :
     a \in NestLeaves, b \in NestLeaves, c \in NestLeaves, d \in NestLeaves,
     c1 \in Combinators, c2 \in Combinators, c3 \in Combinators}

\* a postfix token sequence that is one expression: every combine finds its
\* two operands, and one value is left
IsPostfix(tokens) ==
  LET Depth(k) ==
        Cardinality({i \in 1..k : tokens[i].kind = "leaf"})
        - Cardinality({i \in 1..k : tokens[i].kind = "combine"})
  IN /\ \A k \in 1..Len(tokens) : Depth(k) >= 1
     /\ Depth(Len(tokens)) = 1

\* operands and combinators of the expressions of any nesting shape
TreeTokens ==
  {Leaf(<<Call("element", "td"), Call("id", "x")>>),
   Leaf(<<Call("element", "a"), Call("attr", "h"),
          Call("pseudoElement", "e")>>),
   Comb(" "), Comb(">")}

\* builder.combine(..., c, ...).stringify() of every nesting shape with 2 to
\* MaxLeaves operands
TreeExprs ==
  UNION {{t \o <<Str>> : t \in {u \in [1..(2 * n - 1) -> TreeTokens] :
                                   IsPostfix(u)}} :
         n \in 2..MaxLeaves}

\* expressions a caller evaluates one after another on the shared builder
ReuseParts ==
  {<<Leaf(ch), Str>> : ch \in {c \in ShortChains : Len(c) = 1} \cup NestLeaves}
  \cup {t \in TreeExprs : Len(t) <= 6}

\* two expressions, one after the other
ReuseExprs == {e1 \o e2 : e1 \in ReuseParts, e2 \in ReuseParts}

\* what two callers evaluate, each on its own: a chain, or a combine of two
\* operands
SessionExprs ==
  {<<Leaf(ch), Str>> : ch \in ShortChains}
  \cup {t \in TreeExprs : Len(t) = 4}

\* a caller that has made no call yet
Session(e) ==
  [script |-> Script(e), pos |-> 0, error |-> NoError, result |-> <<>>]

\* call c is the next call of session s; an error has ended a session
Ready(s, c) ==
  /\ sessions[s].error = NoError
  /\ sessions[s].pos < Len(sessions[s].script)
  /\ sessions[s].script[sessions[s].pos + 1] = c

\* may the caller make call c now
Allowed(c) ==
  IF sessions # <<>>
  THEN \E s \in 1..Len(sessions) : Ready(s, c)
  ELSE IF expr = <<>>
  THEN Len(calls) < MaxCalls
  ELSE /\ todo # <<>>
       /\ Head(todo) = c
       /\ \A i \in 1..Len(thrown) : thrown[i] = NoError

\* the builder's fields after a call
Becomes(this) ==
  /\ selectObj' = this.selectObj
  /\ combo' = this.combo
  /\ comboSeparators' = this.comboSeparators
  /\ firstMode' = this.firstMode
  /\ firstId' = this.firstId

\* the caller's view of a call: what it made, what it got
Observed(c, err, ret) ==
  /\ calls' = Append(calls, c)
  /\ thrown' = Append(thrown, err)
  /\ returned' = ret
  /\ todo' = IF expr = <<>> THEN todo ELSE Tail(todo)
  /\ IF sessions = <<>>
     THEN sessions' = sessions
     ELSE \E s \in 1..Len(sessions) :
            /\ Ready(s, c)
            /\ sessions' = [sessions EXCEPT ![s].pos = @ + 1,
                                            ![s].error = err,
                                            ![s].result = ret]
  /\ UNCHANGED expr

Element(tag) ==
  /\ Allowed(Call("element", tag))
  /\ Becomes(element(This, tag).this)
  /\ Observed(Call("element", tag), element(This, tag).thrown, <<>>)

Id(v) ==
  /\ Allowed(Call("id", v))
  /\ Becomes(id(This, v).this)
  /\ Observed(Call("id", v), id(This, v).thrown, <<>>)

Class(v) ==
  /\ Allowed(Call("class", v))
  /\ Becomes(class(This, v).this)
  /\ Observed(Call("class", v), class(This, v).thrown, <<>>)

Attr(v) ==
  /\ Allowed(Call("attr", v))
  /\ Becomes(attr(This, v).this)
  /\ Observed(Call("attr", v), attr(This, v).thrown, <<>>)

PseudoClass(v) ==
  /\ Allowed(Call("pseudoClass", v))
  /\ Becomes(pseudoClass(This, v).this)
  /\ Observed(Call("pseudoClass", v), pseudoClass(This, v).thrown, <<>>)

PseudoElement(v) ==
  /\ Allowed(Call("pseudoElement", v))
  /\ Becomes(pseudoElement(This, v).this)
  /\ Observed(Call("pseudoElement", v), pseudoElement(This, v).thrown, <<>>)

Combine(c) ==
  /\ Allowed(Call("combine", c))
  /\ Becomes(combine(This, c).this)
  /\ Observed(Call("combine", c), combine(This, c).thrown, <<>>)

Stringify ==
  /\ Allowed(Call("stringify", ""))
  /\ Becomes(stringify(This).this)
  /\ Observed(Call("stringify", ""), NoError, <<stringify(This).result>>)

Next ==
  \/ \E tag \in Tags : Element(tag)
  \/ \E v \in Ids : Id(v)
  \/ \E v \in Classes : Class(v)
  \/ \E v \in Attrs : Attr(v)
  \/ \E v \in PseudoClasses : PseudoClass(v)
  \/ \E v \in PseudoElements : PseudoElement(v)
  \/ \E c \in CombinatorArgs : Combine(c)
  \/ Stringify

InitBuilder ==
  /\ selectObj = initialBuilder.selectObj
  /\ combo = initialBuilder.combo
  /\ comboSeparators = initialBuilder.comboSeparators
  /\ firstMode = initialBuilder.firstMode
  /\ firstId = initialBuilder.firstId
  /\ calls = <<>>
  /\ thrown = <<>>
  /\ returned = <<>>

\* an unscripted caller: any calls, errors caught
Init == InitBuilder /\ expr = <<>> /\ todo = <<>> /\ sessions = <<>>

Spec == Init /\ [][Next]_vars

\* a caller that evaluates one expression; an error ends the evaluation
InitExpr ==
  /\ InitBuilder
  /\ expr \in ChainExprs \cup PairExprs \cup LeftExprs \cup RightExprs
              \cup TreeExprs \cup ReuseExprs
  /\ todo = Script(expr)
  /\ sessions = <<>>

SpecExpr == InitExpr /\ [][Next]_vars

\* two callers share the builder; either makes its next call at any time
InitInterleave ==
  /\ InitBuilder
  /\ expr = <<>>
  /\ todo = <<>>
  /\ sessions \in {<<Session(e1), Session(e2)>> :
                     e1 \in SessionExprs, e2 \in SessionExprs}

SpecInterleave == InitInterleave /\ [][Next]_vars

(***************************************************************************)
(* The documented output format                                            *)
(*    element#id.class[attr]:pseudoClass::pseudoElement                    *)
(* and combined selectors: left, ' ', combinator, ' ', right               *)
(***************************************************************************)
Fragment(c) ==
  CASE c.op = "element" -> c.arg
    [] c.op = "id" -> "#" \o c.arg
    [] c.op = "class" -> "." \o c.arg
    [] c.op = "attr" -> "[" \o c.arg \o "]"
    [] c.op = "pseudoClass" -> ":" \o c.arg
    [] c.op = "pseudoElement" -> "::" \o c.arg

\* S(x): the prefixed fragments of chain x, concatenated in call order
RECURSIVE S(_)
S(chain) ==
  IF chain = <<>> THEN "" ELSE Fragment(Head(chain)) \o S(Tail(chain))

\* the string a postfix expression denotes: each combinator between the two
\* operands it was given
RECURSIVE Eval(_, _)
Eval(tokens, stack) ==
  IF tokens = <<>> \/ Head(tokens).kind = "stringify"
  THEN stack[Len(stack)]
  ELSE IF Head(tokens).kind = "leaf"
       THEN Eval(Tail(tokens), Append(stack, S(Head(tokens).calls)))
       ELSE LET n == Len(stack)
                joined == stack[n - 1] \o " " \o Head(tokens).calls[1].arg
                          \o " " \o stack[n]
            IN Eval(Tail(tokens), Append(SubSeq(stack, 1, n - 2), joined))

Value(e) == Eval(e, <<>>)

Rank(op) ==
  CASE op = "element" -> 1
    [] op = "id" -> 2
    [] op = "class" -> 3
    [] op = "attr" -> 4
    [] op = "pseudoClass" -> 5
    [] op = "pseudoElement" -> 6
    [] OTHER -> 0

FragmentOps ==
  {"element", "id", "class", "attr", "pseudoClass", "pseudoElement"}

\* element? -> id? -> class* -> attr* -> pseudoClass* -> pseudoElement?
IsValidChain(ch) ==
  /\ \A i \in 1..Len(ch) : ch[i].op \in FragmentOps /\ ch[i].arg # ""
  /\ \A i \in 1..(Len(ch) - 1) :
       \/ Rank(ch[i].op) < Rank(ch[i + 1].op)
       \/ /\ Rank(ch[i].op) = Rank(ch[i + 1].op)
          /\ ch[i].op \in {"class", "attr", "pseudoClass"}

\* element(...) followed by at least one further fragment
IsElementLed(ch) ==
  IsValidChain(ch) /\ Len(ch) >= 2 /\ ch[1].op = "element"

Shape(e) == [i \in 1..Len(e) |-> e[i].kind]

NoneThrown == \A i \in 1..Len(thrown) : thrown[i] = NoError

\* the expression has been evaluated to its end
Evaluated == expr # <<>> /\ todo = <<>>

(***************************************************************************)
(* Claims about expressions evaluated on the builder as constructed        *)
(* (SpecExpr)                                                              *)
(***************************************************************************)

\* C1: a chain in the order element? id? class* attr* pseudoClass*
\* pseudoElement? raises no error, and its stringify() returns the prefixed
\* fragments concatenated in call order.
C1_ValidChainStringifies ==
  (Shape(expr) = <<"leaf", "stringify">> /\ IsValidChain(expr[1].calls))
    => /\ NoneThrown
       /\ Evaluated => returned = <<S(expr[1].calls)>>

\* all six categories, each repeatable one twice, stringified
C1_Witness ==
  /\ Shape(expr) = <<"leaf", "stringify">>
  /\ Evaluated
  /\ Len(calls) = 10
  /\ returned = <<"td#x.c.d[h][h]:f:f::e">>

\* C2: combine(a, c, b).stringify() raises no error and returns
\* S(a) + ' ' + c + ' ' + S(b) for all valid chains a and b, single
\* element(...) calls and chains without element included.
C2_CombineJoinsOperands ==
  (/\ Shape(expr) = <<"leaf", "leaf", "combine", "stringify">>
   /\ IsValidChain(expr[1].calls)
   /\ IsValidChain(expr[2].calls))
    => /\ NoneThrown
       /\ Evaluated => returned = <<Value(expr)>>

\* C3: combine(combine(a, c1, b), c2, c).stringify() returns
\* S(a) + ' ' + c1 + ' ' + S(b) + ' ' + c2 + ' ' + S(c).
C3_LeftNestedCombine ==
  (/\ Shape(expr) = <<"leaf", "leaf", "combine", "leaf", "combine",
                      "stringify">>
   /\ \A i \in {1, 2, 4} : IsValidChain(expr[i].calls))
    => /\ NoneThrown
       /\ Evaluated => returned = <<Value(expr)>>

\* C4: for operands that each are element(...) and at least one further
\* fragment, combine(a, c1, combine(b, c2, combine(c, c3, d))).stringify()
\* returns S(a) c1 S(b) c2 S(c) c3 S(d), one space on each side of every
\* combinator (so three spaces for the combinator ' ').
C4_RightNestedCombine ==
  (/\ Shape(expr) = <<"leaf", "leaf", "leaf", "leaf", "combine", "combine",
                      "combine", "stringify">>
   /\ \A i \in 1..4 : IsElementLed(expr[i].calls))
    => /\ NoneThrown
       /\ Evaluated =>
            returned = <<S(expr[1].calls) \o " " \o expr[7].calls[1].arg
                         \o " " \o S(expr[2].calls) \o " "
                         \o expr[6].calls[1].arg \o " " \o S(expr[3].calls)
                         \o " " \o expr[5].calls[1].arg \o " "
                         \o S(expr[4].calls)>>

\* the shape of the documented example: '+', '~', then ' '
C4_Witness ==
  /\ Shape(expr) = <<"leaf", "leaf", "leaf", "leaf", "combine", "combine",
                     "combine", "stringify">>
  /\ Evaluated
  /\ returned = <<"a#x.c.d + td#x ~ a:f   td[h]::e">>

(***************************************************************************)
(* Claims about any sequence of calls, errors caught (Spec)                *)
(***************************************************************************)
NumCalls == Len(calls)

\* every call so far is one of the six fragment methods
OneChain == \A i \in 1..NumCalls : calls[i].op \in FragmentOps

\* no call before the last one raised an error
EarlierSucceeded == \A i \in 1..(NumCalls - 1) : thrown[i] = NoError

\* op was called before the last call
Earlier(op) == \E i \in 1..(NumCalls - 1) : calls[i].op = op

\* element is not called between the first and the last call
NoElementBetween == \A i \in 2..(NumCalls - 1) : calls[i].op # "element"

\* C5: after any stringify() call every field of the builder has its
\* initial value.
C5_StringifyResets ==
  (NumCalls > 0 /\ calls[NumCalls].op = "stringify")
    => This = initialBuilder

\* C6: when an operation raises an error, every field of the builder has
\* its initial value.
C6_ErrorResets ==
  (NumCalls > 0 /\ thrown[NumCalls] # NoError) => This = initialBuilder

\* C7: in one chain, the second call of element, of id and of pseudoElement
\* raises the duplicate error, whatever non-failing calls lie in between.
C7_SecondCallIsDuplicate ==
  \A op \in {"element", "id", "pseudoElement"} :
    (/\ OneChain
     /\ EarlierSucceeded
     /\ NumCalls >= 2
     /\ calls[NumCalls].op = op
     /\ Cardinality({i \in 1..(NumCalls - 1) : calls[i].op = op}) = 1)
      => thrown[NumCalls] = errors.moreThanOne

\* C8: in one chain, class after attr, attr after pseudoClass, and any of
\* element, id, class, attr, pseudoClass after pseudoElement raise the
\* order error.
C8_OutOfOrderRaises ==
  (OneChain /\ EarlierSucceeded /\ NoElementBetween /\ NumCalls >= 2)
    => /\ (calls[NumCalls].op = "class" /\ Earlier("attr"))
            => thrown[NumCalls] = errors.order
       /\ (calls[NumCalls].op = "attr" /\ Earlier("pseudoClass"))
            => thrown[NumCalls] = errors.order
       /\ (/\ calls[NumCalls].op \in FragmentOps \ {"pseudoElement"}
           /\ Earlier("pseudoElement"))
            => thrown[NumCalls] = errors.order

\* C9: element(tag) raises an error when an id, class, attr, pseudoClass or
\* pseudoElement fragment was added before it.
C9_ElementMustComeFirst ==
  (/\ OneChain
   /\ EarlierSucceeded
   /\ NumCalls >= 2
   /\ calls[NumCalls].op = "element"
   /\ ~Earlier("element"))
    => thrown[NumCalls] # NoError

\* C10: id(value) raises the order error when a class, attr, pseudoClass or
\* pseudoElement fragment was already added, with or without an element.
C10_IdAfterLaterFragment ==
  (/\ OneChain
   /\ EarlierSucceeded
   /\ NoElementBetween
   /\ NumCalls >= 2
   /\ calls[NumCalls].op = "id"
   /\ ~Earlier("id")
   /\ \E op \in {"class", "attr", "pseudoClass", "pseudoElement"} :
        Earlier(op))
    => thrown[NumCalls] = errors.order

\* the strings whose fragments are in the order
\* element, id, class*, attr*, pseudoClass*, pseudoElement
OrderedSelectors ==
  {S(e \o i \o c \o a \o p \o q) :
     e \in Runs("element", Tags, 1),
     i \in Runs("id", Ids, 1),
     c \in Runs("class", Classes, MaxCalls),
     a \in Runs("attr", Attrs, MaxCalls),
     p \in Runs("pseudoClass", PseudoClasses, MaxCalls),
     q \in Runs("pseudoElement", PseudoElements, 1)}

\* C11: the in-progress selector, every segment in combo and every string
\* stringify() returns for a non-combined selector have their fragments in
\* the order element, id, class*, attr*, pseudoClass*, pseudoElement, with
\* at most one element, id and pseudoElement.
C11_FragmentsStayOrdered ==
  /\ selectObj.seq \in OrderedSelectors
  /\ \A i \in 1..Len(combo) : combo[i] \in OrderedSelectors
  /\ (/\ NumCalls > 0
      /\ calls[NumCalls].op = "stringify"
      /\ \A i \in 1..(NumCalls - 1) : calls[i].op \in FragmentOps
      /\ NoElementBetween)
       => returned[1] \in OrderedSelectors

\* C12: combine(left, combinator, right) fails whenever combinator is not
\* one of ' ', '+', '~', '>'.
C12_InvalidCombinatorRejected ==
  (/\ NumCalls > 0
   /\ calls[NumCalls].op = "combine"
   /\ calls[NumCalls].arg \notin Combinators)
    => thrown[NumCalls] # NoError

\* C12 as amended: combine never fails; whatever token it is given, one of
\* the four combinators or not, it appends it to comboSeparators.
C12_CombineAcceptsAnyToken ==
  [][\A c \in CombinatorArgs :
       calls' = Append(calls, Call("combine", c))
         => /\ comboSeparators' = Append(comboSeparators, c)
            /\ thrown'[Len(thrown')] = NoError]_vars

\* combine was given '!' and recorded it
C12_Witness ==
  /\ NumCalls > 0
  /\ calls[NumCalls] = Call("combine", "!")
  /\ thrown[NumCalls] = NoError
  /\ comboSeparators # <<>>
  /\ comboSeparators[Len(comboSeparators)] = "!"

(***************************************************************************)
(* Claims about reuse and about expressions of any nesting shape           *)
(* (SpecExpr)                                                              *)
(***************************************************************************)
Leaves(e) == SelectSeq(e, LAMBDA t : t.kind = "leaf")

\* one expression of valid usage: a valid chain, or a combine expression
\* whose operands are all element(...) and at least one further fragment,
\* ended by stringify()
IsValidUse(e) ==
  /\ Len(e) >= 2
  /\ e[Len(e)].kind = "stringify"
  /\ IsPostfix(SubSeq(e, 1, Len(e) - 1))
  /\ \A i \in 1..(Len(e) - 1) : e[i].kind # "stringify"
  /\ IF Len(e) = 2
     THEN IsValidChain(e[1].calls)
     ELSE \A i \in 1..(Len(e) - 1) :
            e[i].kind = "leaf" => IsElementLed(e[i].calls)

\* the expressions that e is a sequence of, each up to its stringify()
RECURSIVE Parts(_)
Parts(e) ==
  IF e = <<>> THEN <<>>
  ELSE LET k == CHOOSE i \in 1..(Len(e) + 1) :
                  /\ i = Len(e) + 1 \/ e[i].kind = "stringify"
                  /\ \A j \in 1..(i - 1) : e[j].kind # "stringify"
       IN IF k > Len(e) THEN <<e>>
          ELSE <<SubSeq(e, 1, k)>> \o Parts(SubSeq(e, k + 1, Len(e)))

\* stringify() calls made so far
NumStringified ==
  Cardinality({i \in 1..NumCalls : calls[i].op = "stringify"})

\* C13: expressions of valid usage evaluated one after another on the one
\* builder: after each stringify() every field of the builder has its
\* initial value, and the stringify() returns what the expression yields on
\* a builder as constructed.
C13_ReuseUnderValidUsage ==
  (expr # <<>> /\ \A i \in 1..Len(Parts(expr)) : IsValidUse(Parts(expr)[i]))
    => /\ NoneThrown
       /\ (NumCalls > 0 /\ calls[NumCalls].op = "stringify")
            => /\ This = initialBuilder
               /\ returned =
                    <<Yields(initialBuilder,
                             Script(Parts(expr)[NumStringified]))>>

\* a chain that starts with id was stringified, then a left-nested combine
C13_Witness ==
  /\ Len(Parts(expr)) = 2
  /\ Parts(expr)[1] = <<Leaf(<<Call("id", "x")>>), Str>>
  /\ Shape(Parts(expr)[2])
       = <<"leaf", "leaf", "combine", "leaf", "combine", "stringify">>
  /\ Evaluated
  /\ NumStringified = 2
  /\ This = initialBuilder

\* the strings of the operands of e, left to right
LeafStrings(e) == [i \in 1..Len(Leaves(e)) |-> S(Leaves(e)[i].calls)]

\* the combinators of e in the order in which its combine calls are executed
ExecutedCombinators(e) ==
  LET cs == SelectSeq(e, LAMBDA t : t.kind = "combine")
  IN [i \in 1..Len(cs) |-> cs[i].calls[1].arg]

\* the operands with the last executed combinator first between them
RECURSIVE LastFirst(_, _)
LastFirst(strings, combinators) ==
  IF Len(strings) = 1 THEN strings[1]
  ELSE strings[1] \o " " \o combinators[Len(combinators)] \o " "
       \o LastFirst(Tail(strings),
                    SubSeq(combinators, 1, Len(combinators) - 1))

\* C16: for a combine expression of any nesting shape with n >= 2 operands
\* that each are element(...) and at least one further fragment, at the
\* final stringify() combo holds the n operand strings in construction
\* order and comboSeparators the n - 1 combinators, and the output puts the
\* combinators between consecutive operands in the reverse of the order in
\* which the combine calls were executed.
C16_CombinatorsInReverseExecutionOrder ==
  (Len(expr) > 2 /\ IsValidUse(expr))
    => /\ NoneThrown
       /\ todo = <<Call("stringify", "")>>
            => /\ combo = LeafStrings(expr)
               /\ comboSeparators = ExecutedCombinators(expr)
               /\ Len(comboSeparators) = Len(combo) - 1
       /\ Evaluated
            => returned = <<LastFirst(LeafStrings(expr),
                                      ExecutedCombinators(expr))>>

\* combine(combine(a, ' ', b), '>', combine(c, ' ', d)): the '>' that joins
\* the two inner results is rendered first, between a and b
C16_Witness ==
  /\ Shape(expr) = <<"leaf", "leaf", "combine", "leaf", "leaf", "combine",
                     "combine", "stringify">>
  /\ ExecutedCombinators(expr) = <<" ", " ", ">">>
  /\ Evaluated
  /\ returned = <<"td#x > a[h]::e   td#x   a[h]::e">>

(***************************************************************************)
(* Claims about the effect of single calls (Spec)                          *)
(***************************************************************************)
\* a call is made in this step
CallMade == Len(calls') = Len(calls) + 1

\* the call made in this step
TheCall == calls'[Len(calls')]

\* the call made in this step raised no error
Succeeded == thrown'[Len(thrown')] = NoError

\* C14: when element(tag) is called with a non-empty in-progress selector
\* that holds a non-Type fragment (seq # '' and firstMode false) and does
\* not fail, combo grows by exactly the in-progress seq, appended last,
\* comboSeparators is unchanged, and the new in-progress selector holds the
\* new tag only.
C14_ElementFlushesSegment ==
  [][(/\ CallMade
      /\ TheCall.op = "element"
      /\ selectObj.seq # ""
      /\ ~firstMode
      /\ Succeeded)
       => /\ combo' = Append(combo, selectObj.seq)
          /\ comboSeparators' = comboSeparators
          /\ selectObj' = [emptySelectObj EXCEPT !.tag = TheCall.arg,
                                                 !.seq = TheCall.arg]]_vars

\* element('td') after element('a').id('x') flushed 'a#x'
C14_Witness ==
  /\ calls = <<Call("element", "a"), Call("id", "x"), Call("element", "td")>>
  /\ thrown[3] = NoError
  /\ combo = <<"a#x">>
  /\ selectObj.seq = "td"

\* C17: a call of id, class, attr, pseudoClass or pseudoElement, failing or
\* not, never changes combo or comboSeparators, and when it succeeds seq
\* becomes seq followed by the call's own prefixed fragment.
C17_FragmentCallsLeaveComposite ==
  [][(CallMade /\ TheCall.op \in FragmentOps \ {"element"})
       => /\ combo' = combo
          /\ comboSeparators' = comboSeparators
          /\ Succeeded => selectObj'.seq = selectObj.seq \o Fragment(TheCall)]_vars

\* a fragment call failed and the segment flushed before it is still in
\* combo
C17_Witness ==
  /\ NumCalls > 0
  /\ calls[NumCalls].op \in FragmentOps \ {"element"}
  /\ thrown[NumCalls] # NoError
  /\ combo # <<>>

\* C18: class() called when the in-progress selector holds an attr fragment
\* raises the order error and leaves every field as it was; an error of
\* element, id, attr, pseudoClass or pseudoElement leaves selectObj empty,
\* firstMode true and firstId false.
C18_ClassErrorKeepsState ==
  [][/\ (CallMade /\ TheCall.op = "class" /\ selectObj.attr # "")
          => /\ thrown'[Len(thrown')] = errors.order
             /\ This' = This
     /\ (/\ CallMade
         /\ TheCall.op \in FragmentOps \ {"class"}
         /\ ~Succeeded)
          => /\ selectObj' = emptySelectObj
             /\ firstMode'
             /\ ~firstId']_vars

\* class() failed and the in-progress selector is still there
C18_Witness ==
  /\ NumCalls > 0
  /\ calls[NumCalls].op = "class"
  /\ thrown[NumCalls] = errors.order
  /\ selectObj.attr # ""
  /\ selectObj.seq # ""
  /\ ~firstMode

(***************************************************************************)
(* Claims about two callers sharing the builder (SpecInterleave)           *)
(***************************************************************************)
\* session s got an error, or a string other than the one its expression
\* yields when evaluated alone on the builder as constructed (where, by C1
\* and C13, it raises no error)
Corrupted(s) ==
  \/ sessions[s].error # NoError
  \/ /\ sessions[s].result # <<>>
     /\ sessions[s].result
          # <<Yields(initialBuilder, sessions[s].script)>>

\* session s makes no element and no combine call
ElementFree(s) ==
  \A i \in 1..Len(sessions[s].script) :
    sessions[s].script[i].op \notin {"element", "combine"}

\* C15: two chains that are valid and error-free alone corrupt each other
\* when their calls are interleaved on the shared builder: when both start
\* with element(...) and both have made just that call, the second one got
\* the duplicate error; and when a chain without element is stringified
\* while another such chain has made calls and is not at its end, the
\* string returned is not the one the chain yields alone.
C15_InterleavingCorrupts ==
  sessions # <<>> =>
    /\ (/\ NumCalls = 2
        /\ \A s \in 1..2 : /\ sessions[s].pos = 1
                            /\ sessions[s].script[1].op = "element")
         => /\ thrown = <<NoError, errors.moreThanOne>>
            /\ \E s \in 1..2 :
                 /\ sessions[s].error = errors.moreThanOne
                 /\ Corrupted(s)
                 /\ sessions[3 - s].error = NoError
    /\ \A s \in 1..2 :
         (/\ ElementFree(s)
          /\ ElementFree(3 - s)
          /\ NumCalls > 0
          /\ calls[NumCalls].op = "stringify"
          /\ sessions[s].result # <<>>
          /\ sessions[s].pos = Len(sessions[s].script)
          /\ sessions[3 - s].pos >= 1
          /\ sessions[3 - s].pos < Len(sessions[3 - s].script)
          /\ sessions[3 - s].error = NoError)
           => Corrupted(s)

\* class('c').stringify() and class('d').stringify() interleaved: the first
\* stringify() returns '.c.d'
C15_Witness ==
  /\ sessions # <<>>
  /\ sessions[1].script = <<Call("class", "c"), Call("stringify", "")>>
  /\ sessions[2].script = <<Call("class", "d"), Call("stringify", "")>>
  /\ calls = <<Call("class", "c"), Call("class", "d"), Call("stringify", "")>>
  /\ sessions[1].result = <<".c.d">>
  /\ sessions[2].pos = 1
  /\ Corrupted(1)

====
